---- MODULE Spec2Model ----
(***************************************************************************)
(* A model of UGameData (src/GameData.cpp): the loaders that turn decoded  *)
(* JSON content into lookup structures, and the name-resolution helpers    *)
(* they share.  Every call is synchronous: a call is one action that runs  *)
(* the whole function body, Return hands control back to the caller.       *)
(***************************************************************************)
EXTENDS Integers, Sequences, FiniteSets, TLC

VARIABLES
    Files,          \* the content directory: the paths at which a file exists
    DataStructure,  \* the function-local static of LoadCheckpointsData
    pc,             \* "idle" between calls, "returned" when a call has produced its result
    op,             \* the function called last
    args,           \* the arguments of that call
    decode,         \* what the JSON decoder reported during that call
    result,         \* the value the call returned
    screen          \* messages handed to AddOnScreenDebugMessage during that call

vars == <<Files, DataStructure, pc, op, args, decode, result, screen>>

(***************************************************************************)
(* Bounds of the model.                                                    *)
(***************************************************************************)
MaxNames  == 3   \* longest list of requested names passed directly to a helper
MaxPool   == 2   \* longest sound pool and longest image pool
MaxActors == 2   \* longest actor list
MaxCPIndex == 2  \* largest CurrentActorIndex passed to PopulateLearnMoreUI
MaxSlack  == 1   \* largest difference between TArray::Max() and TArray::Num()

SeqsUpTo(S, n) == UNION {[1..k -> S] : k \in 0..n}

Range(s) == {s[i] : i \in 1..Len(s)}

(***************************************************************************)
(* Strings.  FString::operator== is Equals(.., ESearchCase::IgnoreCase)    *)
(* (Stricmp for a literal on the right), and two FNames are equal when     *)
(* their comparison indices are, which ignore case as well.  ToLower is    *)
(* the case folding of every string of the model that has a capital.       *)
(***************************************************************************)
LowerTable ==
    ("LearnMoreProposed" :> "learnmoreproposed") @@
    ("LearnMoreCompleted" :> "learnmorecompleted") @@
    ("HowToSelection" :> "howtoselection") @@
    ("QuizProposed" :> "quizproposed") @@
    ("LearnMoreNavigation" :> "learnmorenavigation") @@
    ("MiniGameQuiz_Context" :> "minigamequiz_context") @@
    ("MiniGameQuiz_QuestionInstruction" :> "minigamequiz_questioninstruction") @@
    ("Inactivity_Instruction" :> "inactivity_instruction") @@
    ("Inactivty_Instruction" :> "inactivty_instruction") @@
    ("HOWTOSELECTION" :> "howtoselection") @@
    ("Bogus" :> "bogus") @@
    ("A" :> "a") @@ ("B" :> "b") @@ ("Z" :> "z") @@
    ("P" :> "p") @@ ("Q" :> "q") @@
    ("CP_1" :> "cp_1") @@ ("CP_2" :> "cp_2") @@ ("CP_9" :> "cp_9")

ToLower(s) == IF s \in DOMAIN LowerTable THEN LowerTable[s] ELSE s

FStringEquals(a, b) == ToLower(a) = ToLower(b)

FNameEquals(a, b) == ToLower(a) = ToLower(b)

(***************************************************************************)
(* Engine containers.                                                      *)
(***************************************************************************)
Contains(arr, x) == \E i \in 1..Len(arr) : arr[i] = x

EmptyMap == [k \in {} |-> {}]

\* TMap::Add: a value already stored under the key is replaced
TMapAdd(map, k, v) ==
    [x \in DOMAIN map \cup {k} |-> IF x = k THEN v ELSE map[x]]

(***************************************************************************)
(* Assets and actors.  An asset is identified by id (its address); id 0 is *)
(* the null pointer.                                                       *)
(***************************************************************************)
NullSound == [id |-> 0, name |-> ""]
NullImage == [id |-> 0, name |-> ""]
NullActor == [id |-> 0, Tags |-> <<>>]

SoundEntries == {NullSound, [id |-> 1, name |-> "A"], [id |-> 2, name |-> "A"],
                 [id |-> 3, name |-> "B"]}
ImageEntries == {NullImage, [id |-> 1, name |-> "P"], [id |-> 2, name |-> "P"],
                 [id |-> 3, name |-> "Q"]}
ActorEntries == {NullActor, [id |-> 1, Tags |-> <<"CP_1">>],
                 [id |-> 2, Tags |-> <<"CP_2", "CP_1">>],
                 [id |-> 3, Tags |-> <<"CP_1">>]}

SoundPools == SeqsUpTo(SoundEntries, MaxPool)
ImagePools == SeqsUpTo(ImageEntries, MaxPool)
ActorLists == SeqsUpTo(ActorEntries, MaxActors)

SoundNameSet == {"A", "a", "B", "Z"}
ImageNameSet == {"P", "p", "Q", "Z"}
ActorNameSet == {"CP_1", "cp_1", "CP_2", "CP_9"}

(***************************************************************************)
(* GetSoundByName, src/GameData.cpp 265-279.                               *)
(***************************************************************************)
\* the condition of line 272
SoundMatches(Sound, soundName, sounds) ==
    Sound # NullSound /\ FStringEquals(Sound.name, soundName) /\ ~Contains(sounds, Sound)

RECURSIVE GetSoundByName_Pool_Break(_, _, _, _)
GetSoundByName_Pool_Break(soundName, NarrativeSounds, j, sounds) ==
    IF j > Len(NarrativeSounds) THEN sounds
    ELSE IF SoundMatches(NarrativeSounds[j], soundName, sounds)
         THEN Append(sounds, NarrativeSounds[j])
         ELSE GetSoundByName_Pool_Break(soundName, NarrativeSounds, j + 1, sounds)

\* the inner loop, lines 270-276, from pool position j on
RECURSIVE GetSoundByName_Pool(_, _, _, _)
GetSoundByName_Pool(soundName, NarrativeSounds, j, sounds) ==
    IF j > Len(NarrativeSounds) THEN sounds
    ELSE GetSoundByName_Pool(soundName, NarrativeSounds, j + 1,
            IF SoundMatches(NarrativeSounds[j], soundName, sounds)
            THEN Append(sounds, NarrativeSounds[j])
            ELSE sounds)

\* the outer loop, lines 268-277, from name position i on
RECURSIVE GetSoundByName_Names(_, _, _, _)
GetSoundByName_Names(SoundNames, NarrativeSounds, i, sounds) ==
    IF i > Len(SoundNames) THEN sounds
    ELSE GetSoundByName_Names(SoundNames, NarrativeSounds, i + 1,
            GetSoundByName_Pool(SoundNames[i], NarrativeSounds, 1, sounds))

GetSoundByName(SoundNames, NarrativeSounds) ==
    GetSoundByName_Names(SoundNames, NarrativeSounds, 1, <<>>)

(***************************************************************************)
(* GetImageByName, src/GameData.cpp 284-299.                               *)
(***************************************************************************)
ImageMatches_NoContains(Image, imageName, foundImages) ==
    Image # NullImage /\ FStringEquals(Image.name, imageName)

\* the condition of line 292
ImageMatches(Image, imageName, foundImages) ==
    Image # NullImage /\ FStringEquals(Image.name, imageName) /\ ~Contains(foundImages, Image)

RECURSIVE GetImageByName_Pool(_, _, _, _)
GetImageByName_Pool(imageName, Images, j, foundImages) ==
    IF j > Len(Images) THEN foundImages
    ELSE GetImageByName_Pool(imageName, Images, j + 1,
            IF ImageMatches(Images[j], imageName, foundImages)
            THEN Append(foundImages, Images[j])
            ELSE foundImages)

RECURSIVE GetImageByName_Names(_, _, _, _)
GetImageByName_Names(ImageNames, Images, i, foundImages) ==
    IF i > Len(ImageNames) THEN foundImages
    ELSE GetImageByName_Names(ImageNames, Images, i + 1,
            GetImageByName_Pool(ImageNames[i], Images, 1, foundImages))

GetImageByName(ImageNames, Images) ==
    GetImageByName_Names(ImageNames, Images, 1, <<>>)

(***************************************************************************)
(* GetActorByName, src/GameData.cpp 246-260.  Returns the actor together   *)
(* with the two out-parameters.  Every actor of the model carries at least *)
(* one tag, as the callers' actor collections do (Tags[0] is read without  *)
(* a check).                                                               *)
(***************************************************************************)
\* the loop of lines 248-256 from position j on, then lines 257-259
RECURSIVE GetActorByName_From(_, _, _)
GetActorByName_From(ActorName, CPActors, j) ==
    IF j > Len(CPActors)
    THEN [actor |-> NullActor, success |-> FALSE, infoMessage |-> "Actor Not Found"]
    ELSE IF CPActors[j] # NullActor /\ FNameEquals(CPActors[j].Tags[1], ActorName)
         THEN [actor |-> CPActors[j], success |-> TRUE, infoMessage |-> "Actor Found"]
         ELSE GetActorByName_From(ActorName, CPActors, j + 1)

GetActorByName(ActorName, CPActors) == GetActorByName_From(ActorName, CPActors, 1)

(***************************************************************************)
(* StringToInstructions, src/GameData.cpp 304-315.                         *)
(***************************************************************************)
StringToInstructions_CaseSensitive(InstructionType) ==
    IF InstructionType = "LearnMoreProposed" THEN "LearnMoreProposed"
    ELSE IF InstructionType = "LearnMoreCompleted" THEN "LearnMoreCompleted"
    ELSE IF InstructionType = "HowToSelection" THEN "HowToSelection"
    ELSE IF InstructionType = "QuizProposed" THEN "QuizProposed"
    ELSE IF InstructionType = "LearnMoreNavigation" THEN "LearnMoreNavigation"
    ELSE IF InstructionType = "MiniGameQuiz_Context" THEN "MiniGameQuiz_Context"
    ELSE IF InstructionType = "MiniGameQuiz_QuestionInstruction"
         THEN "MiniGameQuiz_QuestionInstruction"
    ELSE IF InstructionType = "Inactivity_Instruction" THEN "Inactivty_Instruction"
    ELSE "LearnMoreProposed"

\* the values are the enumerators of Instructions, written as their names
StringToInstructions(InstructionType) ==
    IF FStringEquals(InstructionType, "LearnMoreProposed") THEN "LearnMoreProposed"
    ELSE IF FStringEquals(InstructionType, "LearnMoreCompleted") THEN "LearnMoreCompleted"
    ELSE IF FStringEquals(InstructionType, "HowToSelection") THEN "HowToSelection"
    ELSE IF FStringEquals(InstructionType, "QuizProposed") THEN "QuizProposed"
    ELSE IF FStringEquals(InstructionType, "LearnMoreNavigation") THEN "LearnMoreNavigation"
    ELSE IF FStringEquals(InstructionType, "MiniGameQuiz_Context") THEN "MiniGameQuiz_Context"
    ELSE IF FStringEquals(InstructionType, "MiniGameQuiz_QuestionInstruction")
         THEN "MiniGameQuiz_QuestionInstruction"
    ELSE IF FStringEquals(InstructionType, "Inactivity_Instruction") THEN "Inactivty_Instruction"
    ELSE "LearnMoreProposed"

(***************************************************************************)
(* The content files.  A file is its kind (the schema it was written for)  *)
(* and the structure a decoder for that schema obtains from it.            *)
(***************************************************************************)
QuizPath == "Content/JSONFiles/AutomatedTour/quiz.json"

Paths == {"instructions.json", "instructions2.json", "checkpoints.json",
          "checkpoints2.json", "learnmore.json", "learnmore2.json",
          QuizPath, "missing.json"}

InstructionRecord(type, title, captions, english, french) ==
    [InstructionType |-> type, TitleCaptionKey |-> title, CaptionKeys |-> captions,
     EnglishNarrationSoundNames |-> english, FrenchNarrationSoundNames |-> french]

CheckpointRecord(name, frame, title, english, stop, more, quiz, n) ==
    [CheckpointName |-> name, CheckpointFrameNumber |-> frame, TitleCaptionKey |-> title,
     CaptionKeys |-> <<title, "caption">>, EnglishNarrationSoundNames |-> english,
     FrenchNarrationSoundNames |-> <<"B">>, ShouldStopCamera |-> stop,
     HasLearnMoreOption |-> more, HasQuiz |-> quiz, NumOfLearnMoreOption |-> n]

LearnMoreRecord(index, title, english, images, sources) ==
    [CorrespondingCPIndex |-> index, TitleCaptionKey |-> title,
     CaptionKeys |-> <<title, "caption">>, EnglishNarrationSoundNames |-> english,
     FrenchNarrationSoundNames |-> <<"B", "B">>, ImagesNames |-> images,
     ImagesSources |-> sources]

QuizOption(name, description, english, french) ==
    [OptionName |-> name, OptionDescription |-> description,
     EnglishNarrationSound |-> english, FrenchNarrationSound |-> french]

QuizQuestion(options) == [QuestionOptions |-> [Options |-> options]]

InstructionsFile1 ==
    [kind |-> "FInstructionsData", content |-> [Data |-> <<
        InstructionRecord("LearnMoreProposed", "I1", <<"I1a", "I1b">>, <<"A">>, <<"B">>),
        InstructionRecord("QuizProposed", "I2", <<"I2a">>, <<"A", "A", "B">>, <<>>),
        InstructionRecord("Bogus", "I3", <<>>, <<"Z">>, <<"a">>),
        InstructionRecord("quizproposed", "I4", <<"I4a">>, <<"B">>, <<"A">>)>>]]

InstructionsFile2 ==
    [kind |-> "FInstructionsData", content |-> [Data |-> <<
        InstructionRecord("HowToSelection", "J1", <<"J1a">>, <<"B", "A">>, <<"B">>),
        InstructionRecord("Inactivity_Instruction", "J2", <<>>, <<>>, <<>>),
        InstructionRecord("HOWTOSELECTION", "J3", <<"J3a">>, <<"A">>, <<"Z">>)>>]]

CheckpointsFile1 ==
    [kind |-> "FCheckpointsData", content |-> [Data |-> <<
        CheckpointRecord("CP_1", 10, "C1", <<"A">>, TRUE, TRUE, FALSE, 2),
        CheckpointRecord("CP_2", 20, "C2", <<"B", "A">>, FALSE, FALSE, TRUE, 0),
        CheckpointRecord("CP_9", 30, "C3", <<"Z">>, TRUE, FALSE, FALSE, 0),
        CheckpointRecord("cp_1", 40, "C4", <<>>, FALSE, TRUE, TRUE, 1)>>]]

CheckpointsFile2 ==
    [kind |-> "FCheckpointsData", content |-> [Data |-> <<
        CheckpointRecord("CP_2", 5, "D1", <<"A", "a">>, TRUE, FALSE, FALSE, 0),
        CheckpointRecord("CP_9", 6, "D2", <<"B">>, FALSE, FALSE, FALSE, 0)>>]]

LearnMoreFile1 ==
    [kind |-> "FLearnMoreData", content |-> [Data |-> <<
        LearnMoreRecord(0, "L1", <<"A">>, <<"P">>, <<"src1">>),
        LearnMoreRecord(1, "L2", <<"B", "A">>, <<"P", "Q">>, <<"src2", "src3">>),
        LearnMoreRecord(1, "L3", <<"Z">>, <<>>, <<>>),
        LearnMoreRecord(2, "L4", <<"a">>, <<"q", "P">>, <<"src4">>)>>]]

LearnMoreFile2 ==
    [kind |-> "FLearnMoreData", content |-> [Data |-> <<
        LearnMoreRecord(2, "M1", <<>>, <<"Z">>, <<>>),
        LearnMoreRecord(0, "M2", <<"A">>, <<"Q">>, <<"src5", "src6">>),
        LearnMoreRecord(2, "M3", <<"B">>, <<"P">>, <<"src7">>)>>]]

QuizQuestions1 ==
    [m_Questions |-> <<
        QuizQuestion(<<QuizOption("O1", "D1", "A", "B"), QuizOption("O2", "D2", "B", "Z")>>),
        QuizQuestion(<<QuizOption("O3", "D3", "a", "A")>>),
        QuizQuestion(<<>>)>>]

QuizQuestions2 ==
    [m_Questions |-> <<
        QuizQuestion(<<QuizOption("O4", "D4", "Z", "A"), QuizOption("O5", "D5", "A", "A"),
                       QuizOption("O6", "D6", "B", "B")>>)>>]

QuizFile == [kind |-> "FQuizQuestions", content |-> QuizQuestions1]

\* what each file of the directory holds
FileAt(p) ==
    CASE p = "instructions.json" -> InstructionsFile1
      [] p = "instructions2.json" -> InstructionsFile2
      [] p = "checkpoints.json" -> CheckpointsFile1
      [] p = "checkpoints2.json" -> CheckpointsFile2
      [] p = "learnmore.json" -> LearnMoreFile1
      [] p = "learnmore2.json" -> LearnMoreFile2
      [] p = QuizPath -> QuizFile

\* the directories the program may be started in: complete, or without the quiz file
FileSystems == {Paths \ {"missing.json"}, Paths \ {"missing.json", QuizPath}}

QuizStructures == {QuizQuestions1, QuizQuestions2}

(***************************************************************************)
(* UJsonHelper::ReadStructFromJsonFile<T>: the structure, and the two      *)
(* out-parameters.  A file that is missing or not of schema T fails to     *)
(* decode and gives the default-constructed T.                             *)
(***************************************************************************)
DefaultStruct(T) ==
    IF T = "FQuizQuestions" THEN [m_Questions |-> <<>>] ELSE [Data |-> <<>>]

ReadStructFromJsonFile(fs, T, path) ==
    IF path \in fs /\ FileAt(path).kind = T
    THEN [value |-> FileAt(path).content, success |-> TRUE,
          message |-> "Read Struct Json Succeeded"]
    ELSE [value |-> DefaultStruct(T), success |-> FALSE,
          message |-> "Read Struct Json Failed"]

NotDecoded == [invoked |-> FALSE, success |-> FALSE, message |-> ""]

Decoded(d) == [invoked |-> TRUE, success |-> d.success, message |-> d.message]

(***************************************************************************)
(* LoadInstructionsData, src/GameData.cpp 35-61.  The loop carries the     *)
(* structure being built and the messages put on the screen.               *)
(***************************************************************************)
InstructionRecordStep_KeepFirst(InstructionKeyMap, rec, NarrativeSounds) ==
    LET kind == StringToInstructions(rec.InstructionType)
        narrationKeys ==
            [m_TitleKey |-> rec.TitleCaptionKey,
             m_Keys |-> rec.CaptionKeys,
             m_EnglishNarrationSounds |->
                 GetSoundByName(rec.EnglishNarrationSoundNames, NarrativeSounds),
             m_FrenchNarrationSounds |->
                 GetSoundByName(rec.FrenchNarrationSoundNames, NarrativeSounds)]
    IN  IF kind \in DOMAIN InstructionKeyMap THEN InstructionKeyMap
        ELSE TMapAdd(InstructionKeyMap, kind, narrationKeys)

\* lines 44-52: one record into the map
InstructionRecordStep(InstructionKeyMap, rec, NarrativeSounds) ==
    LET narrationKeys ==
            [m_TitleKey |-> rec.TitleCaptionKey,
             m_Keys |-> rec.CaptionKeys,
             m_EnglishNarrationSounds |->
                 GetSoundByName(rec.EnglishNarrationSoundNames, NarrativeSounds),
             m_FrenchNarrationSounds |->
                 GetSoundByName(rec.FrenchNarrationSoundNames, NarrativeSounds)]
    IN  TMapAdd(InstructionKeyMap, StringToInstructions(rec.InstructionType), narrationKeys)

RECURSIVE LoadInstructionsData_Loop(_, _, _, _, _)
LoadInstructionsData_Loop(Data, i, d, NarrativeSounds, st) ==
    IF i > Len(Data) THEN st
    ELSE LoadInstructionsData_Loop(Data, i + 1, d, NarrativeSounds,
            [InstructionKeyMap |->
                 InstructionRecordStep(st.InstructionKeyMap, Data[i], NarrativeSounds),
             screen |-> IF ~d.success THEN Append(st.screen, d.message) ELSE st.screen])

LoadInstructionsData(path, NarrativeSounds) ==
    /\ pc = "idle"
    /\ LET d == ReadStructFromJsonFile(Files, "FInstructionsData", path)
           st == LoadInstructionsData_Loop(d.value.Data, 1, d, NarrativeSounds,
                     [InstructionKeyMap |-> EmptyMap, screen |-> <<>>])
       IN  /\ decode' = Decoded(d)
           /\ result' = [InstructionKeyMap |-> st.InstructionKeyMap]
           /\ screen' = st.screen
    /\ op' = "LoadInstructionsData"
    /\ args' = [path |-> path, NarrativeSounds |-> NarrativeSounds]
    /\ pc' = "returned"
    /\ UNCHANGED <<Files, DataStructure>>

(***************************************************************************)
(* LoadCheckpointsData, src/GameData.cpp 76-112.                           *)
(***************************************************************************)
CheckpointNarration(rec, NarrativeSounds) ==
    [m_TitleKey |-> rec.TitleCaptionKey,
     m_Keys |-> rec.CaptionKeys,
     m_EnglishNarrationSounds |->
         GetSoundByName(rec.EnglishNarrationSoundNames, NarrativeSounds),
     m_FrenchNarrationSounds |->
         GetSoundByName(rec.FrenchNarrationSoundNames, NarrativeSounds),
     m_ShouldStopCamera |-> rec.ShouldStopCamera,
     m_HasLearnMoreOption |-> rec.HasLearnMoreOption,
     m_HasQuiz |-> rec.HasQuiz,
     m_NumOfLearnMoreOptions |-> rec.NumOfLearnMoreOption]

CheckpointRecordStep_SkipNull(st, rec, NarrativeSounds, CPActors) ==
    LET found == GetActorByName(rec.CheckpointName, CPActors)
        actor == found.actor
    IN  [ActorsToFollow |-> Append(st.ActorsToFollow, actor),
         ActorFrameMap |-> IF actor = NullActor THEN st.ActorFrameMap
                           ELSE TMapAdd(st.ActorFrameMap, actor, rec.CheckpointFrameNumber),
         ActorKeyMap |-> TMapAdd(st.ActorKeyMap, actor,
                                 CheckpointNarration(rec, NarrativeSounds)),
         screen |-> IF ~found.success THEN Append(st.screen, found.infoMessage)
                    ELSE st.screen]

\* lines 86-108: one record; success and message are the ones GetActorByName wrote
CheckpointRecordStep(st, rec, NarrativeSounds, CPActors) ==
    LET found == GetActorByName(rec.CheckpointName, CPActors)
        actor == found.actor
    IN  [ActorsToFollow |-> Append(st.ActorsToFollow, actor),
         ActorFrameMap |-> TMapAdd(st.ActorFrameMap, actor, rec.CheckpointFrameNumber),
         ActorKeyMap |-> TMapAdd(st.ActorKeyMap, actor,
                                 CheckpointNarration(rec, NarrativeSounds)),
         screen |-> IF ~found.success THEN Append(st.screen, found.infoMessage)
                    ELSE st.screen]

RECURSIVE LoadCheckpointsData_Loop(_, _, _, _, _)
LoadCheckpointsData_Loop(Data, i, NarrativeSounds, CPActors, st) ==
    IF i > Len(Data) THEN st
    ELSE LoadCheckpointsData_Loop(Data, i + 1, NarrativeSounds, CPActors,
            CheckpointRecordStep(st, Data[i], NarrativeSounds, CPActors))

\* the gameData a call builds from the records it iterates
CheckpointsGameData(Data, NarrativeSounds, CPActors) ==
    LoadCheckpointsData_Loop(Data, 1, NarrativeSounds, CPActors,
        [ActorsToFollow |-> <<>>, ActorFrameMap |-> EmptyMap, ActorKeyMap |-> EmptyMap,
         screen |-> <<>>])

\* line 82: the initializer of a function-local static runs in the first call only
StaticDataStructure(cache, d) ==
    IF cache.initialized THEN cache ELSE [initialized |-> TRUE, value |-> d.value]

LoadCheckpointsData(path, NarrativeSounds, CPActors) ==
    /\ pc = "idle"
    /\ LET d == ReadStructFromJsonFile(Files, "FCheckpointsData", path)
           cache == StaticDataStructure(DataStructure, d)
           st == CheckpointsGameData(cache.value.Data, NarrativeSounds, CPActors)
       IN  /\ DataStructure' = cache
           /\ decode' = IF DataStructure.initialized THEN NotDecoded ELSE Decoded(d)
           /\ result' = [ActorsToFollow |-> st.ActorsToFollow,
                         ActorFrameMap |-> st.ActorFrameMap,
                         ActorKeyMap |-> st.ActorKeyMap]
           /\ screen' = st.screen
    /\ op' = "LoadCheckpointsData"
    /\ args' = [path |-> path, NarrativeSounds |-> NarrativeSounds, CPActors |-> CPActors]
    /\ pc' = "returned"
    /\ UNCHANGED Files

(***************************************************************************)
(* PopulateLearnMoreUI, src/GameData.cpp 122-150.  success and message are *)
(* written by the decoder and never read.                                  *)
(***************************************************************************)
DefaultLearnMoreNarration ==
    [m_TitleKey |-> "", m_Keys |-> <<>>, m_EnglishNarrationSounds |-> <<>>,
     m_FrenchNarrationSounds |-> <<>>, m_Images |-> <<>>, m_SourceName |-> ""]

SelectsRecord_UpTo(data, CurrentActorIndex) ==
    data.CorrespondingCPIndex <= CurrentActorIndex

\* line 132
SelectsRecord(data, CurrentActorIndex) ==
    data.CorrespondingCPIndex = CurrentActorIndex

\* lines 134-144
LearnMoreNarration(data, NarrativeSounds, Images) ==
    [m_TitleKey |-> data.TitleCaptionKey,
     m_Keys |-> data.CaptionKeys,
     m_EnglishNarrationSounds |->
         GetSoundByName(data.EnglishNarrationSoundNames, NarrativeSounds),
     m_FrenchNarrationSounds |->
         GetSoundByName(data.FrenchNarrationSoundNames, NarrativeSounds),
     m_Images |-> GetImageByName(data.ImagesNames, Images),
     CorrespondingCPIndex |-> data.CorrespondingCPIndex,
     m_SourceName |-> IF data.ImagesSources # <<>> THEN data.ImagesSources[1]
                      ELSE DefaultLearnMoreNarration.m_SourceName]

RECURSIVE PopulateLearnMoreUI_Loop(_, _, _, _, _, _)
PopulateLearnMoreUI_Loop(Data, i, CurrentActorIndex, NarrativeSounds, Images, LearnMoreData) ==
    IF i > Len(Data) THEN LearnMoreData
    ELSE PopulateLearnMoreUI_Loop(Data, i + 1, CurrentActorIndex, NarrativeSounds, Images,
            IF SelectsRecord(Data[i], CurrentActorIndex)
            THEN Append(LearnMoreData, LearnMoreNarration(Data[i], NarrativeSounds, Images))
            ELSE LearnMoreData)

PopulateLearnMoreUI(JSONpath, CurrentActorIndex, NarrativeSounds, Images) ==
    /\ pc = "idle"
    /\ LET d == ReadStructFromJsonFile(Files, "FLearnMoreData", JSONpath)
       IN  /\ decode' = Decoded(d)
           /\ result' = [LearnMoreData |->
                  PopulateLearnMoreUI_Loop(d.value.Data, 1, CurrentActorIndex,
                                           NarrativeSounds, Images, <<>>)]
    /\ screen' = <<>>
    /\ op' = "PopulateLearnMoreUI"
    /\ args' = [JSONpath |-> JSONpath, CurrentActorIndex |-> CurrentActorIndex,
                NarrativeSounds |-> NarrativeSounds, Images |-> Images]
    /\ pc' = "returned"
    /\ UNCHANGED <<Files, DataStructure>>

(***************************************************************************)
(* LoadQuizQuestions, src/GameData.cpp 189-203.                            *)
(***************************************************************************)
LoadQuizQuestions ==
    /\ pc = "idle"
    /\ LET d == ReadStructFromJsonFile(Files, "FQuizQuestions", QuizPath)
       IN  /\ decode' = Decoded(d)
           /\ result' = d.value
           /\ screen' = IF ~d.success THEN <<d.message>> ELSE <<>>
    /\ op' = "LoadQuizQuestions"
    /\ args' = [path |-> QuizPath]
    /\ pc' = "returned"
    /\ UNCHANGED <<Files, DataStructure>>

(***************************************************************************)
(* PopulateQuizUI, src/GameData.cpp 211-234.  The loop runs to             *)
(* options.Max(), the capacity of the copied array, which the allocator    *)
(* may round above Num().  A slot at or past Num() is outside the array:   *)
(* a build with range checks stops at the first such access, a build       *)
(* without them reads whatever the memory holds.  Max, the contents of the *)
(* slack slots and the kind of build are therefore inputs of the call.     *)
(* CurrentQuestionIndex is 0-based and, as the callers pass it, in range.  *)
(***************************************************************************)
GarbageOptions ==
    {QuizOption(n, n, e, f) : n \in {"?"}, e \in {"A", "?"}, f \in {"B", "?"}}

\* lines 220-229: one slot; narration is declared outside the loop and keeps its m_Keys
QuizOptionStep(st, i, option, NarrativeSounds) ==
    LET narration ==
            [m_TitleKey |-> option.OptionName,
             m_Keys |-> Append(st.narration.m_Keys, option.OptionDescription),
             m_EnglishNarrationSounds |->
                 GetSoundByName(<<option.EnglishNarrationSound>>, NarrativeSounds),
             m_FrenchNarrationSounds |->
                 GetSoundByName(<<option.FrenchNarrationSound>>, NarrativeSounds)]
    IN  [narration |-> narration, narrationMap |-> TMapAdd(st.narrationMap, i, narration)]

\* the loop of line 218 over the slots 0 .. Max-1, slots[i+1] being what slot i holds
RECURSIVE PopulateQuizUI_Loop(_, _, _, _)
PopulateQuizUI_Loop(slots, i, NarrativeSounds, st) ==
    IF ~(i < Len(slots)) THEN st
    ELSE PopulateQuizUI_Loop(slots, i + 1, NarrativeSounds,
            QuizOptionStep(st, i, slots[i + 1], NarrativeSounds))

PopulateQuizUI(NarrativeSounds, QuizQuestions, CurrentQuestionIndex, slack, checked) ==
    /\ pc = "idle"
    /\ LET options ==
               QuizQuestions.m_Questions[CurrentQuestionIndex + 1].QuestionOptions.Options
           st == PopulateQuizUI_Loop(options \o slack, 0, NarrativeSounds,
                     [narration |-> [m_TitleKey |-> DefaultLearnMoreNarration.m_TitleKey,
                                     m_Keys |-> DefaultLearnMoreNarration.m_Keys],
                      narrationMap |-> EmptyMap])
       IN  IF slack # <<>> /\ checked
           THEN /\ pc' = "crashed"
                /\ result' = [LearnMoreKeyMap |-> EmptyMap]
           ELSE /\ pc' = "returned"
                /\ result' = [LearnMoreKeyMap |-> st.narrationMap]
    /\ op' = "PopulateQuizUI"
    /\ args' = [NarrativeSounds |-> NarrativeSounds, QuizQuestions |-> QuizQuestions,
                CurrentQuestionIndex |-> CurrentQuestionIndex,
                Max |-> Len(QuizQuestions.m_Questions[CurrentQuestionIndex + 1]
                                .QuestionOptions.Options) + Len(slack),
                slack |-> slack, checked |-> checked]
    /\ decode' = NotDecoded
    /\ screen' = <<>>
    /\ UNCHANGED <<Files, DataStructure>>

(***************************************************************************)
(* The public helpers called on their own.                                 *)
(***************************************************************************)
InstructionTypeStrings ==
    {"LearnMoreProposed", "LearnMoreCompleted", "HowToSelection", "QuizProposed",
     "LearnMoreNavigation", "MiniGameQuiz_Context", "MiniGameQuiz_QuestionInstruction",
     "Inactivity_Instruction", "Inactivty_Instruction", "quizproposed", "HOWTOSELECTION",
     "learnmoreproposed", "Bogus", ""}

HelperReturn(name, a, r, msgs) ==
    /\ pc = "idle"
    /\ op' = name
    /\ args' = a
    /\ result' = r
    /\ screen' = msgs
    /\ decode' = NotDecoded
    /\ pc' = "returned"
    /\ UNCHANGED <<Files, DataStructure>>

GetSoundByNameCall(SoundNames, NarrativeSounds) ==
    HelperReturn("GetSoundByName",
                 [Names |-> SoundNames, Pool |-> NarrativeSounds],
                 GetSoundByName(SoundNames, NarrativeSounds), <<>>)

GetImageByNameCall(ImageNames, Images) ==
    HelperReturn("GetImageByName",
                 [Names |-> ImageNames, Pool |-> Images],
                 GetImageByName(ImageNames, Images), <<>>)

GetActorByNameCall(ActorName, CPActors) ==
    HelperReturn("GetActorByName",
                 [ActorName |-> ActorName, CPActors |-> CPActors],
                 GetActorByName(ActorName, CPActors), <<>>)

StringToInstructionsCall(InstructionType) ==
    HelperReturn("StringToInstructions",
                 [InstructionType |-> InstructionType],
                 StringToInstructions(InstructionType), <<>>)

(***************************************************************************)
(* The caller takes the result; the next call starts from a clean slate    *)
(* except for the static DataStructure.                                    *)
(***************************************************************************)
NoArgs == [none |-> TRUE]
NoResult == [none |-> TRUE]

Return ==
    /\ pc = "returned"
    /\ pc' = "idle"
    /\ op' = "none"
    /\ args' = NoArgs
    /\ result' = NoResult
    /\ decode' = NotDecoded
    /\ screen' = <<>>
    /\ UNCHANGED <<Files, DataStructure>>

Init ==
    /\ Files \in FileSystems
    /\ DataStructure = [initialized |-> FALSE, value |-> DefaultStruct("FCheckpointsData")]
    /\ pc = "idle"
    /\ op = "none"
    /\ args = NoArgs
    /\ result = NoResult
    /\ decode = NotDecoded
    /\ screen = <<>>

Idle == pc = "idle"

CheckpointPaths == {"checkpoints.json", "checkpoints2.json", "missing.json"}
LearnMorePaths == {"learnmore.json", "learnmore2.json", "missing.json"}

CallLoadInstructionsData(paths) ==
    Idle /\ \E path \in paths, NarrativeSounds \in SoundPools :
                LoadInstructionsData(path, NarrativeSounds)

CallLoadCheckpointsData(paths) ==
    Idle /\ \E path \in paths, NarrativeSounds \in SoundPools, CPActors \in ActorLists :
                LoadCheckpointsData(path, NarrativeSounds, CPActors)

CallPopulateLearnMoreUI(paths) ==
    Idle /\ \E JSONpath \in paths, CurrentActorIndex \in 0..MaxCPIndex,
               NarrativeSounds \in SoundPools, Images \in ImagePools :
                PopulateLearnMoreUI(JSONpath, CurrentActorIndex, NarrativeSounds, Images)

CallPopulateQuizUI ==
    Idle /\ \E NarrativeSounds \in SoundPools, QuizQuestions \in QuizStructures :
                \E CurrentQuestionIndex \in 0..(Len(QuizQuestions.m_Questions) - 1),
                   slack \in SeqsUpTo(GarbageOptions, MaxSlack), checked \in BOOLEAN :
                    PopulateQuizUI(NarrativeSounds, QuizQuestions, CurrentQuestionIndex,
                                   slack, checked)

CallGetSoundByName ==
    Idle /\ \E SoundNames \in SeqsUpTo(SoundNameSet, MaxNames), NarrativeSounds \in SoundPools :
                GetSoundByNameCall(SoundNames, NarrativeSounds)

CallGetImageByName ==
    Idle /\ \E ImageNames \in SeqsUpTo(ImageNameSet, MaxNames), Images \in ImagePools :
                GetImageByNameCall(ImageNames, Images)

CallGetActorByName ==
    Idle /\ \E ActorName \in ActorNameSet, CPActors \in ActorLists :
                GetActorByNameCall(ActorName, CPActors)

CallStringToInstructions ==
    Idle /\ \E InstructionType \in InstructionTypeStrings :
                StringToInstructionsCall(InstructionType)

(***************************************************************************)
(* The whole program: any call, with any path of the directory.            *)
(***************************************************************************)
Next ==
    \/ CallLoadInstructionsData(Paths)
    \/ CallLoadCheckpointsData(Paths)
    \/ CallPopulateLearnMoreUI(Paths)
    \/ LoadQuizQuestions
    \/ CallPopulateQuizUI
    \/ CallGetSoundByName
    \/ CallGetImageByName
    \/ CallGetActorByName
    \/ CallStringToInstructions
    \/ Return

Spec == Init /\ [][Next]_vars

(***************************************************************************)
(* The program restricted to one family of calls.                          *)
(***************************************************************************)
\* started in the complete directory
InitComplete == Init /\ Files = Paths \ {"missing.json"}

NextHelpers ==
    \/ CallGetSoundByName
    \/ CallGetImageByName
    \/ CallGetActorByName
    \/ CallStringToInstructions
    \/ Return

SpecHelpers == InitComplete /\ [][NextHelpers]_vars

NextInstructions ==
    \/ CallLoadInstructionsData(Paths)
    \/ Return

SpecInstructions == InitComplete /\ [][NextInstructions]_vars

NextCheckpoints ==
    \/ CallLoadCheckpointsData(CheckpointPaths)
    \/ Return

SpecCheckpoints == InitComplete /\ [][NextCheckpoints]_vars

NextLearnMore ==
    \/ CallPopulateLearnMoreUI(LearnMorePaths)
    \/ Return

SpecLearnMore == InitComplete /\ [][NextLearnMore]_vars

(***************************************************************************)
(* Properties.                                                             *)
(***************************************************************************)
Returned(name) == pc = "returned" /\ op = name

Min(S) == CHOOSE x \in S : \A y \in S : x <= y
Max(S) == CHOOSE x \in S : \A y \in S : y <= x

NoDuplicates(s) == \A i, j \in 1..Len(s) : s[i] = s[j] => i = j

\* the structure the decoder gives for the path of this call
DecodedNow(T, path) == ReadStructFromJsonFile(Files, T, path).value

FailureMessage == ReadStructFromJsonFile(Files, "none", "none").message

RecordCount ==
    CASE op = "LoadInstructionsData" -> Cardinality(DOMAIN result.InstructionKeyMap)
      [] op = "LoadCheckpointsData" -> Len(result.ActorsToFollow)
      [] op = "PopulateLearnMoreUI" -> Len(result.LearnMoreData)
      [] op = "LoadQuizQuestions" -> Len(result.m_Questions)

Loaders == {"LoadInstructionsData", "LoadCheckpointsData", "PopulateLearnMoreUI",
            "LoadQuizQuestions"}

\* C1: when the decoder fails during a loader call, the loader returns zero
\* records and puts at least one message on the screen; when it succeeds, the
\* decode-failure message is not put on the screen.
C1_DecodeFailureDiagnosed ==
    (pc = "returned" /\ op \in Loaders /\ decode.invoked) =>
        /\ ~decode.success => (RecordCount = 0 /\ Len(screen) >= 1)
        /\ decode.success => ~Contains(screen, FailureMessage)

\* C2: the result of every loader call is the one built from the file at the
\* path of that call and the pools of that call, whatever was called before.
C2_ResultFromOwnInputs ==
    /\ Returned("LoadInstructionsData") =>
           result.InstructionKeyMap =
               LoadInstructionsData_Loop(
                   DecodedNow("FInstructionsData", args.path).Data, 1,
                   ReadStructFromJsonFile(Files, "FInstructionsData", args.path),
                   args.NarrativeSounds,
                   [InstructionKeyMap |-> EmptyMap, screen |-> <<>>]).InstructionKeyMap
    /\ Returned("LoadCheckpointsData") =>
           LET fresh == CheckpointsGameData(DecodedNow("FCheckpointsData", args.path).Data,
                                            args.NarrativeSounds, args.CPActors)
           IN  /\ result.ActorsToFollow = fresh.ActorsToFollow
               /\ result.ActorFrameMap = fresh.ActorFrameMap
               /\ result.ActorKeyMap = fresh.ActorKeyMap
    /\ Returned("PopulateLearnMoreUI") =>
           result.LearnMoreData =
               PopulateLearnMoreUI_Loop(DecodedNow("FLearnMoreData", args.JSONpath).Data, 1,
                   args.CurrentActorIndex, args.NarrativeSounds, args.Images, <<>>)
    /\ Returned("LoadQuizQuestions") =>
           result = DecodedNow("FQuizQuestions", QuizPath)

\* C3: PopulateQuizUI returns, for a question with k options, a map with the
\* keys 0..k-1 whose bundle at i has option i's name as title, the one-element
\* caption list of option i's description, and the sounds resolved from option
\* i's English and French sound names.
C3_QuizBundlePerOption ==
    Returned("PopulateQuizUI") =>
        LET options == args.QuizQuestions.m_Questions[args.CurrentQuestionIndex + 1]
                           .QuestionOptions.Options
            map == result.LearnMoreKeyMap
        IN  /\ DOMAIN map = 0..(Len(options) - 1)
            /\ \A i \in DOMAIN map :
                   i < Len(options) =>
                       /\ map[i].m_TitleKey = options[i + 1].OptionName
                       /\ map[i].m_Keys = <<options[i + 1].OptionDescription>>
                       /\ map[i].m_EnglishNarrationSounds =
                              GetSoundByName(<<options[i + 1].EnglishNarrationSound>>,
                                             args.NarrativeSounds)
                       /\ map[i].m_FrenchNarrationSounds =
                              GetSoundByName(<<options[i + 1].FrenchNarrationSound>>,
                                             args.NarrativeSounds)

\* the first non-null actor of the list whose first tag is the name, or null
FirstTagged(name, CPActors) ==
    LET hits == {j \in 1..Len(CPActors) :
                    CPActors[j] # NullActor /\ FNameEquals(CPActors[j].Tags[1], name)}
    IN  IF hits = {} THEN NullActor ELSE CPActors[Min(hits)]

\* C4: ActorsToFollow has one entry per checkpoint record of the file passed
\* to the call, and entry i is the actor resolved for record i (null when no
\* actor matches), in file order.
C4_ActorPerInputRecord ==
    Returned("LoadCheckpointsData") =>
        LET recs == DecodedNow("FCheckpointsData", args.path).Data IN
        /\ Len(result.ActorsToFollow) = Len(recs)
        /\ \A i \in 1..Len(result.ActorsToFollow) :
               i <= Len(recs) =>
                   result.ActorsToFollow[i] = FirstTagged(recs[i].CheckpointName, args.CPActors)

(***************************************************************************)
(* Name resolution seen from outside: the pool positions that hold a       *)
(* non-null asset whose display name equals the requested name, equality   *)
(* being FString equality.                                                 *)
(***************************************************************************)
Resolver == {"GetSoundByName", "GetImageByName"}

IsNullAsset(x) == x.id = 0

Matches(name, pool) ==
    {j \in 1..Len(pool) : ~IsNullAsset(pool[j]) /\ FStringEquals(pool[j].name, name)}

\* the assets of the output that a requested name accounts for
Contributed(name, out) == {x \in Range(out) : FStringEquals(x.name, name)}

\* C5 as stated in the specification: a requested name contributes at most one
\* asset, the first non-null pool asset that carries the name; a name without a
\* match contributes nothing.
C5_FirstMatchOnly ==
    (pc = "returned" /\ op \in Resolver) =>
        \A i \in 1..Len(args.Names) :
            LET name == args.Names[i]
                hits == Matches(name, args.Pool)
            IN  /\ Cardinality(Contributed(name, result)) <= 1
                /\ hits # {} => Contributed(name, result) = {args.Pool[Min(hits)]}
                /\ hits = {} => Contributed(name, result) = {}

FirstRequest(x, names) == Min({i \in 1..Len(names) : FStringEquals(names[i], x.name)})

FirstInPool(x, pool) == Min({j \in 1..Len(pool) : pool[j] = x})

\* C5, amended: a requested name contributes every distinct non-null pool asset
\* that carries the name, each once; the output lists them by first request of
\* their name and then by pool position; a name without a match contributes
\* nothing and null pool entries never appear.
C5_EveryMatchInPoolOrder ==
    (pc = "returned" /\ op \in Resolver) =>
        /\ \A i \in 1..Len(args.Names) :
               Contributed(args.Names[i], result) =
                   {args.Pool[j] : j \in Matches(args.Names[i], args.Pool)}
        /\ \A k \in 1..Len(result) :
               /\ ~IsNullAsset(result[k])
               /\ \E i \in 1..Len(args.Names) : FStringEquals(args.Names[i], result[k].name)
               /\ Contains(args.Pool, result[k])
        /\ \A k, l \in 1..Len(result) :
               k < l =>
                   LET nk == FirstRequest(result[k], args.Names)
                       nl == FirstRequest(result[l], args.Names)
                   IN  \/ nk < nl
                       \/ /\ nk = nl
                          /\ FirstInPool(result[k], args.Pool) < FirstInPool(result[l], args.Pool)

\* a call whose pool holds two different assets under one requested name, both returned
C5_Witness ==
    /\ Returned("GetSoundByName")
    /\ \E j, k \in 1..Len(args.Pool) :
           /\ j < k
           /\ args.Pool[j] # args.Pool[k]
           /\ ~IsNullAsset(args.Pool[j])
           /\ args.Pool[j].name = args.Pool[k].name
           /\ Contains(args.Names, args.Pool[j].name)
           /\ Contains(result, args.Pool[j])
           /\ Contains(result, args.Pool[k])

RECURSIVE RemoveRepeated(_)
RemoveRepeated(names) ==
    IF names = <<>> THEN <<>>
    ELSE LET front == RemoveRepeated(SubSeq(names, 1, Len(names) - 1))
             last == names[Len(names)]
         IN  IF Contains(front, last) THEN front ELSE Append(front, last)

\* C6: a resolved list holds no asset twice, and it is the list obtained by
\* resolving the requested names with repeated names removed (first occurrences
\* kept) against the same pool.
C6_RepeatedNamesChangeNothing ==
    /\ (pc = "returned" /\ op \in Resolver) => NoDuplicates(result)
    /\ Returned("GetSoundByName") =>
           result = GetSoundByName(RemoveRepeated(args.Names), args.Pool)
    /\ Returned("GetImageByName") =>
           result = GetImageByName(RemoveRepeated(args.Names), args.Pool)

\* a call with a name requested twice, the name in the pool, and a second name resolved too
C6_Witness ==
    /\ Returned("GetImageByName")
    /\ Len(args.Names) = 3
    /\ args.Names[1] = args.Names[2]
    /\ args.Names[3] # args.Names[1]
    /\ Len(result) = 2
    /\ FStringEquals(result[1].name, args.Names[1])
    /\ FStringEquals(result[2].name, args.Names[3])

\* the positions of the records owned by the checkpoint, in file order
RECURSIVE OwnedPositions(_, _, _)
OwnedPositions(recs, index, i) ==
    IF i > Len(recs) THEN <<>>
    ELSE IF recs[i].CorrespondingCPIndex = index
         THEN <<i>> \o OwnedPositions(recs, index, i + 1)
         ELSE OwnedPositions(recs, index, i + 1)

\* C7: PopulateLearnMoreUI returns one entry for each record whose
\* CorrespondingCPIndex is CurrentActorIndex, in file order, and nothing else;
\* the source attribution of an entry is the first of its record's
\* ImagesSources, or empty when the record has none.
C7_OwnedRecordsInFileOrder ==
    Returned("PopulateLearnMoreUI") =>
        LET recs == DecodedNow("FLearnMoreData", args.JSONpath).Data
            owned == OwnedPositions(recs, args.CurrentActorIndex, 1)
            out == result.LearnMoreData
        IN  /\ Len(out) = Len(owned)
            /\ Cardinality({i \in 1..Len(recs) :
                               recs[i].CorrespondingCPIndex = args.CurrentActorIndex})
                   = Len(out)
            /\ \A k \in 1..Len(out) :
                   k <= Len(owned) =>
                       /\ out[k].m_TitleKey = recs[owned[k]].TitleCaptionKey
                       /\ out[k].m_Keys = recs[owned[k]].CaptionKeys
                       /\ out[k].CorrespondingCPIndex = args.CurrentActorIndex
                       /\ out[k].m_SourceName =
                              IF Len(recs[owned[k]].ImagesSources) = 0 THEN ""
                              ELSE Head(recs[owned[k]].ImagesSources)

\* the file with owning indices 0,1,1,2 read for checkpoint 1: the 2nd and 3rd records
C7_Witness ==
    /\ Returned("PopulateLearnMoreUI")
    /\ args.JSONpath = "learnmore.json"
    /\ args.CurrentActorIndex = 1
    /\ Len(result.LearnMoreData) = 2
    /\ result.LearnMoreData[1].m_TitleKey = "L2"
    /\ result.LearnMoreData[1].m_SourceName = "src2"
    /\ result.LearnMoreData[2].m_TitleKey = "L3"
    /\ result.LearnMoreData[2].m_SourceName = ""

RecognizedTypes ==
    {"LearnMoreProposed", "LearnMoreCompleted", "HowToSelection", "QuizProposed",
     "LearnMoreNavigation", "MiniGameQuiz_Context", "MiniGameQuiz_QuestionInstruction",
     "Inactivity_Instruction"}

\* the enumerator that belongs to a recognized string (the last one is spelled
\* Inactivty_Instruction in the enumeration)
EnumeratorOf(type) ==
    IF type = "Inactivity_Instruction" THEN "Inactivty_Instruction" ELSE type

\* C8 as stated in the specification: the eight recognized strings, matched
\* exactly and with case, map to their own enumerators, and every other string
\* maps to LearnMoreProposed.
C8_ExactMatchOrDefault ==
    Returned("StringToInstructions") =>
        /\ args.InstructionType \in RecognizedTypes =>
               result = EnumeratorOf(args.InstructionType)
        /\ args.InstructionType \notin RecognizedTypes => result = "LearnMoreProposed"

\* C8, amended: a string equal, case ignored, to one of the eight recognized
\* strings maps to that string's enumerator, different recognized strings map
\* to different enumerators, and every other string maps to LearnMoreProposed.
C8_MatchIgnoringCaseOrDefault ==
    Returned("StringToInstructions") =>
        /\ \A r \in RecognizedTypes :
               ToLower(args.InstructionType) = ToLower(r) => result = EnumeratorOf(r)
        /\ (\A r \in RecognizedTypes : ToLower(args.InstructionType) # ToLower(r)) =>
               result = "LearnMoreProposed"
        /\ \A r1, r2 \in RecognizedTypes :
               r1 # r2 => StringToInstructions(r1) # StringToInstructions(r2)

\* a recognized string written in another case, mapped to its enumerator
C8_Witness ==
    /\ Returned("StringToInstructions")
    /\ args.InstructionType = "quizproposed"
    /\ result = "QuizProposed"

\* the narration bundle of one instruction record
InstructionBundle(rec, pool) ==
    [m_TitleKey |-> rec.TitleCaptionKey,
     m_Keys |-> rec.CaptionKeys,
     m_EnglishNarrationSounds |-> GetSoundByName(rec.EnglishNarrationSoundNames, pool),
     m_FrenchNarrationSounds |-> GetSoundByName(rec.FrenchNarrationSoundNames, pool)]

\* C9: the map of LoadInstructionsData has one entry for each instruction kind
\* that occurs among the records after string-to-kind mapping, and the entry of
\* a kind is the bundle of the last record in file order of that kind.
C9_LastRecordOfKindWins ==
    Returned("LoadInstructionsData") =>
        LET recs == DecodedNow("FInstructionsData", args.path).Data
            kind(i) == StringToInstructions(recs[i].InstructionType)
            map == result.InstructionKeyMap
        IN  /\ DOMAIN map = {kind(i) : i \in 1..Len(recs)}
            /\ \A k \in DOMAIN map :
                   \A i \in 1..Len(recs) :
                       (kind(i) = k /\ \A j \in (i + 1)..Len(recs) : kind(j) # k) =>
                           map[k] = InstructionBundle(recs[i], args.NarrativeSounds)

\* the record of unrecognized type "Bogus" has replaced the LearnMoreProposed record before it
C9_Witness ==
    /\ Returned("LoadInstructionsData")
    /\ args.path = "instructions.json"
    /\ Len(args.NarrativeSounds) > 0
    /\ Cardinality(DOMAIN result.InstructionKeyMap) = 2
    /\ result.InstructionKeyMap["LearnMoreProposed"].m_TitleKey = "I3"
    /\ result.InstructionKeyMap["QuizProposed"].m_TitleKey = "I4"

\* C10: in the result of LoadCheckpointsData both maps have the same keys, the
\* distinct entries (null included) of ActorsToFollow, hence no more entries
\* than ActorsToFollow has; the entry of an actor holds the frame number and
\* the bundle of the last record, among those the call went through, that
\* resolved to that actor.
C10_MapsKeyedByFollowedActors ==
    Returned("LoadCheckpointsData") =>
        LET recs == DataStructure.value.Data
            follow == result.ActorsToFollow
        IN  /\ DOMAIN result.ActorFrameMap = DOMAIN result.ActorKeyMap
            /\ DOMAIN result.ActorFrameMap = Range(follow)
            /\ Cardinality(DOMAIN result.ActorFrameMap) <= Len(follow)
            /\ Cardinality(DOMAIN result.ActorKeyMap) <= Len(follow)
            /\ Len(follow) = Len(recs)
            /\ \A a \in Range(follow) :
                   LET last == Max({i \in 1..Len(follow) : follow[i] = a})
                   IN  /\ result.ActorFrameMap[a] = recs[last].CheckpointFrameNumber
                       /\ result.ActorKeyMap[a].m_TitleKey = recs[last].TitleCaptionKey
                       /\ result.ActorKeyMap[a] =
                              CheckpointNarration(recs[last], args.NarrativeSounds)

\* two records resolved to one actor and two stayed unresolved: four entries to
\* follow, two keys, each holding its last record
C10_Witness ==
    /\ Returned("LoadCheckpointsData")
    /\ Len(result.ActorsToFollow) = 4
    /\ result.ActorsToFollow[1] = result.ActorsToFollow[4]
    /\ result.ActorsToFollow[1] # NullActor
    /\ result.ActorsToFollow[2] = NullActor
    /\ result.ActorsToFollow[3] = NullActor
    /\ Cardinality(DOMAIN result.ActorFrameMap) = 2
    /\ result.ActorFrameMap[NullActor] = 30
    /\ result.ActorFrameMap[result.ActorsToFollow[1]] = 40

====
